---- MODULE Spec2Model ----
(***************************************************************************)
(* The specification-driven command dispatcher of pcluster/cli.py:         *)
(* load_model (schema resolver), to_kebab_case / to_snake_case (naming),   *)
(* gen_parser + argparse's parse_known_args (grammar), convert_args        *)
(* (argument router), dispatch and main (dispatch and result pipeline).    *)
(* One behaviour of the model is one process run of main().                *)
(***************************************************************************)
EXTENDS Integers, Sequences, FiniteSets, TLC

(***************************************************************************)
(* Text.  A name (operationId, parameter name, flag, namespace key) is a   *)
(* sequence of one-character strings, so that the regular expressions of   *)
(* the naming functions can be computed character by character.            *)
(***************************************************************************)
\* str.lower() on one character, for the characters it changes
TO_LOWER ==
    [A |-> "a", B |-> "b", C |-> "c", D |-> "d", E |-> "e", F |-> "f", G |-> "g",
     H |-> "h", I |-> "i", J |-> "j", K |-> "k", L |-> "l", M |-> "m", N |-> "n",
     O |-> "o", P |-> "p", Q |-> "q", R |-> "r", S |-> "s", T |-> "t", U |-> "u",
     V |-> "v", W |-> "w", X |-> "x", Y |-> "y", Z |-> "z"]

\* str.upper() on one character, for the characters it changes
TO_UPPER ==
    [a |-> "A", b |-> "B", c |-> "C", d |-> "D", e |-> "E", f |-> "F", g |-> "G",
     h |-> "H", i |-> "I", j |-> "J", k |-> "K", l |-> "L", m |-> "M", n |-> "N",
     o |-> "O", p |-> "P", q |-> "Q", r |-> "R", s |-> "S", t |-> "T", u |-> "U",
     v |-> "V", w |-> "W", x |-> "X", y |-> "Y", z |-> "Z"]

DIGITS == {"0","1","2","3","4","5","6","7","8","9"}

\* [A-Z]
IsUpper(c) == c \in DOMAIN TO_LOWER

\* [a-z]
IsLower(c) == c \in DOMAIN TO_UPPER

\* [0-9]
IsDigit(c) == c \in DIGITS

lower(c) == IF IsUpper(c) THEN TO_LOWER[c] ELSE c

upper(c) == IF IsLower(c) THEN TO_UPPER[c] ELSE c

\* str.lower()
str_lower(s) == [i \in DOMAIN s |-> lower(s[i])]

\* str.replace(old, new) for one-character old and new
str_replace(s, old, new) == [i \in DOMAIN s |-> IF s[i] = old THEN new ELSE s[i]]

\* the last index j >= k such that s[k..j] are all lower-case letters (k - 1 if none)
RECURSIVE LowerRunEnd(_, _)
LowerRunEnd(s, k) ==
    IF k <= Len(s) /\ IsLower(s[k]) THEN LowerRunEnd(s, k + 1) ELSE k - 1

\* re.sub("(.)([A-Z][a-z]+)", r"\1<sep>\2", s), scanning s from index i:
\* leftmost non-overlapping matches, [a-z]+ greedy
RECURSIVE sub_word(_, _, _)
sub_word(s, i, sep) ==
    IF i > Len(s) THEN <<>>
    ELSE IF i + 2 <= Len(s) /\ IsUpper(s[i + 1]) /\ IsLower(s[i + 2])
         THEN LET j == LowerRunEnd(s, i + 2)
              IN  <<s[i], sep>> \o SubSeq(s, i + 1, j) \o sub_word(s, j + 1, sep)
         ELSE <<s[i]>> \o sub_word(s, i + 1, sep)

\* re.sub("([a-z0-9])([A-Z])", r"\1<sep>\2", s), scanning s from index i
RECURSIVE sub_hump(_, _, _)
sub_hump(s, i, sep) ==
    IF i > Len(s) THEN <<>>
    ELSE IF i + 1 <= Len(s) /\ (IsLower(s[i]) \/ IsDigit(s[i])) /\ IsUpper(s[i + 1])
         THEN <<s[i], sep, s[i + 1]>> \o sub_hump(s, i + 2, sep)
         ELSE <<s[i]>> \o sub_hump(s, i + 1, sep)

to_kebab_case(input) ==
    LET str1 == str_replace(sub_word(input, 1, "-"), "_", "-")
    IN  str_lower(sub_hump(str1, 1, "-"))

to_snake_case(input) ==
    LET str1 == str_replace(sub_word(input, 1, "_"), "-", "_")
    IN  str_lower(sub_hump(str1, 1, "_"))

\* str.title(): a letter is upper-cased when no letter precedes it, lower-cased otherwise
str_title(s) ==
    [i \in DOMAIN s |->
        IF i > 1 /\ (IsUpper(s[i - 1]) \/ IsLower(s[i - 1])) THEN lower(s[i]) ELSE upper(s[i])]

RECURSIVE str_remove(_, _)
str_remove(s, c) ==
    IF s = <<>> THEN <<>>
    ELSE (IF Head(s) = c THEN <<>> ELSE <<Head(s)>>) \o str_remove(Tail(s), c)

\* pcluster.utils.camelcase: "".join(word.title() for word in s.split("_"))
camelcase(snake_case_word) == str_remove(str_title(snake_case_word), "_")

(***************************************************************************)
(* Python values.  A value is a tagged record, so that None, strings,      *)
(* booleans, integers, lists and base64 text are never confused.           *)
(***************************************************************************)
None == [t |-> "None"]

Str(s) == [t |-> "str", v |-> s]

Bool(b) == [t |-> "bool", v |-> b]

PyInt(n) == [t |-> "int", v |-> n]

List(xs) == [t |-> "list", v |-> xs]

\* base64.b64encode(data.encode('utf-8')).decode('utf-8'): text that is not the data
B64(data) == [t |-> "b64", v |-> data]

\* dict.update
dict_update(d, e) == [k \in DOMAIN d \cup DOMAIN e |-> IF k \in DOMAIN e THEN e[k] ELSE d[k]]

\* {k: v for k, v in d.items() if k in keys}
dict_restrict(d, keys) == [k \in DOMAIN d \cap keys |-> d[k]]

\* del d[k] / the rest of d after d.pop(k)
dict_del(d, k) == [j \in DOMAIN d \ {k} |-> d[j]]

\* d[k] = v
dict_set(d, k, v) == [j \in DOMAIN d \cup {k} |-> IF j = k THEN v ELSE d[j]]

\* d.get(k, default)
dict_get(d, k, default) == IF k \in DOMAIN d THEN d[k] ELSE default

EmptyDict == <<>>

(***************************************************************************)
(* Schema resolver: _resolve_ref, _resolve_param, _resolve_body,           *)
(* load_model.  A schema document is [paths, components]: paths is the     *)
(* sequence of declared operations in document order, components the       *)
(* table spec['components']['schemas'].  The key "$ref" is written ref.    *)
(***************************************************************************)
\* whether spec['components']['schemas'][schema_ref] exists for subspec's $ref
ref_found(spec, subspec) ==
    "ref" \in DOMAIN subspec => subspec.ref \in DOMAIN spec.components

_resolve_ref(spec, subspec) ==
    IF "ref" \in DOMAIN subspec
    THEN dict_update(subspec, spec.components[subspec.ref])
    ELSE subspec

\* every lookup _resolve_param makes finds its key
param_refs_found(spec, param) ==
    /\ ref_found(spec, param.schema)
    /\ LET schema == _resolve_ref(spec, param.schema)
       IN  "items" \in DOMAIN schema => ref_found(spec, schema.items)

_resolve_param(spec, param) ==
    LET resolved == _resolve_ref(spec, param.schema)
        new_param == dict_update([name |-> to_kebab_case(param.name), body |-> FALSE],
                                 dict_restrict(param, {"description", "required"}))
        multi == "items" \in DOMAIN resolved
        schema == IF multi THEN _resolve_ref(spec, resolved.items) ELSE resolved
        marked == IF multi THEN dict_set(new_param, "multi", TRUE) ELSE new_param
    IN  dict_update(marked, dict_restrict(schema, {"enum", "type", "pattern"}))

\* every lookup _resolve_body makes finds its key
body_refs_found(spec, operation) ==
    /\ ref_found(spec, operation.requestBody)
    /\ LET body_content == _resolve_ref(spec, operation.requestBody)
       IN  \A i \in DOMAIN body_content.properties :
               ref_found(spec, body_content.properties[i].data)

_resolve_body(spec, operation) ==
    LET body_content == _resolve_ref(spec, operation.requestBody)
        required == dict_get(body_content, "required", {})
        resolve(prop) ==
            LET param_data == _resolve_ref(spec, prop.data)
                new_param == dict_update(
                    [name |-> to_kebab_case(prop.name), body |-> TRUE,
                     required |-> prop.name \in required],
                    dict_restrict(param_data, {"description", "type", "enum", "pattern"}))
            IN  IF dict_get(param_data, "format", "") = "byte"
                THEN dict_set(new_param, "type", "byte")
                ELSE new_param
    IN  [i \in DOMAIN body_content.properties |-> resolve(body_content.properties[i])]

\* the name load_model asks get_function_from_name for
func_of(operation) ==
    [module |-> operation.controller,
     name   |-> to_snake_case(to_kebab_case(operation.operationId))]

\* one operation's descriptor, as load_model builds it
op_descriptor(spec, operation) ==
    LET params == [i \in DOMAIN operation.parameters |->
                       _resolve_param(spec, operation.parameters[i])]
        all    == IF "requestBody" \in DOMAIN operation
                  THEN params \o _resolve_body(spec, operation)
                  ELSE params
        entry  == [params |-> all, func |-> func_of(operation)]
    IN  IF "description" \in DOMAIN operation
        THEN dict_set(entry, "description", operation.description)
        ELSE entry

\* whether load_model raises on this operation (KeyError of a $ref target,
\* or get_function_from_name finds no such function)
op_loads(spec, functions, operation) ==
    /\ \A i \in DOMAIN operation.parameters : param_refs_found(spec, operation.parameters[i])
    /\ "requestBody" \in DOMAIN operation => body_refs_found(spec, operation)
    /\ func_of(operation) \in functions

\* the model dict after the first n operations of the document: a later
\* operation with the same op_name replaces the earlier entry
RECURSIVE load_ops(_, _)
load_ops(spec, n) ==
    IF n = 0 THEN EmptyDict
    ELSE LET operation == spec.paths[n]
         IN  dict_set(load_ops(spec, n - 1), to_kebab_case(operation.operationId),
                      op_descriptor(spec, operation))

\* load_model(): [ok |-> TRUE, model |-> dict] or [ok |-> FALSE] when it raises
load_model(spec, functions) ==
    IF \A n \in DOMAIN spec.paths : op_loads(spec, functions, spec.paths[n])
    THEN [ok |-> TRUE, model |-> load_ops(spec, Len(spec.paths))]
    ELSE [ok |-> FALSE]

(***************************************************************************)
(* Value coercion: the functions gen_parser attaches to a flag as type=.   *)
(* A command-line string is a sequence of characters.  A coercion gives    *)
(* [ok |-> TRUE, value |-> v], or [ok |-> FALSE, how |-> h] where h is     *)
(* "sys.exit(1)" (re_validator), "error" (ValueError: argparse reports it  *)
(* with parser.error) or "raise" (an exception argparse does not catch).   *)
(***************************************************************************)
FALSE_WORDS == {<<"f","a","l","s","e">>, <<"F","a","l","s","e">>, <<"F","A","L","S","E">>}

bool_converter(in_str) == Bool(in_str \notin FALSE_WORDS)

\* a character class of a pattern: a set of class names and literal characters
InClass(c, class) ==
    \/ "a-z" \in class /\ IsLower(c)
    \/ "A-Z" \in class /\ IsUpper(c)
    \/ "0-9" \in class /\ IsDigit(c)
    \/ c \in class

\* re.compile(rexp_str).match(in_str) is not None, for the patterns
\* ^[first][rest]+$ : one character of class first, then one or more of class rest
re_match(rexp, in_str) ==
    /\ Len(in_str) >= 2
    /\ InClass(in_str[1], rexp.first)
    /\ \A i \in 2..Len(in_str) : InClass(in_str[i], rexp.rest)

re_validator(rexp_str, param, in_str) ==
    IF ~re_match(rexp_str, in_str)
    THEN [ok |-> FALSE, how |-> "sys.exit(1)"]
    ELSE [ok |-> TRUE, value |-> Str(in_str)]

read_file_b64(files, path) ==
    IF path \in DOMAIN files
    THEN [ok |-> TRUE, value |-> B64(files[path])]
    ELSE [ok |-> FALSE, how |-> "raise"]

DigitValue(c) == CHOOSE n \in 0..9 : ToString(n) = c

RECURSIVE DecimalValue(_)
DecimalValue(s) ==
    IF s = <<>> THEN 0 ELSE 10 * DecimalValue(SubSeq(s, 1, Len(s) - 1)) + DigitValue(s[Len(s)])

\* int(in_str), for unsigned decimal text
py_int(in_str) ==
    IF in_str # <<>> /\ \A i \in DOMAIN in_str : IsDigit(in_str[i])
    THEN [ok |-> TRUE, value |-> PyInt(DecimalValue(in_str))]
    ELSE [ok |-> FALSE, how |-> "error"]

\* gen_parser's type_map
type_map == [int |-> "int", boolean |-> "bool_converter", byte |-> "read_file_b64"]

\* the type= of a flag: the pattern check when the parameter has a pattern,
\* else type_map.get(param.get('type'))
type_coerce_of(param) ==
    IF "pattern" \in DOMAIN param
    THEN [fn |-> "re_validator", rexp_str |-> param.pattern, param |-> param.name]
    ELSE IF "type" \in DOMAIN param /\ param.type \in DOMAIN type_map
         THEN [fn |-> type_map[param.type]]
         ELSE [fn |-> "None"]

\* argparse's _get_value: type_func(arg_string)
get_value(files, type_coerce, arg_string) ==
    CASE type_coerce.fn = "re_validator" ->
             re_validator(type_coerce.rexp_str, type_coerce.param, arg_string)
      [] type_coerce.fn = "int" -> py_int(arg_string)
      [] type_coerce.fn = "bool_converter" -> [ok |-> TRUE, value |-> bool_converter(arg_string)]
      [] type_coerce.fn = "read_file_b64" -> read_file_b64(files, arg_string)
      [] OTHER -> [ok |-> TRUE, value |-> Str(arg_string)]

(***************************************************************************)
(* Grammar builder: gen_parser and add_cli_commands.  The parser is a dict *)
(* from subcommand to the sequence of its flags (argparse actions).        *)
(***************************************************************************)
DEBUG == <<"d","e","b","u","g">>

TIME == <<"t","i","m","e">>

HELP == <<"h","e","l","p">>

OPERATION == <<"o","p","e","r","a","t","i","o","n">>

FUNC == <<"f","u","n","c">>

LIST_CLUSTERS == <<"l","i","s","t","-","c","l","u","s","t","e","r","s">>

\* argparse's dest of a long option: the option string with '-' replaced by '_'
dest_of(name) == str_replace(name, "-", "_")

\* subparser.add_argument(f"--{param['name']}", required=, choices=, nargs=, type=);
\* choices=None is the key choices left out
param_argument(param) ==
    LET argument == [name     |-> param.name,
                     action   |-> "store",
                     required |-> dict_get(param, "required", FALSE),
                     nargs    |-> IF "multi" \in DOMAIN param THEN "+" ELSE "None",
                     type     |-> type_coerce_of(param)]
    IN  IF "enum" \in DOMAIN param
        THEN dict_set(argument, "choices", param.enum)
        ELSE argument

\* subparser.add_argument("--debug" / "--time", action="store_true")
store_true_argument(name) ==
    [name |-> name, action |-> "store_true", required |-> FALSE]

\* the flags of one subcommand: one per parameter, then --debug
op_arguments(operation) ==
    [i \in DOMAIN operation.params |-> param_argument(operation.params[i])]
        \o <<store_true_argument(DEBUG)>>

\* add_argument raises ArgumentError (conflicting option string) when a
\* subcommand gets the same option string twice; -h/--help is always there
arguments_conflict(arguments) ==
    \/ \E i, j \in DOMAIN arguments : i # j /\ arguments[i].name = arguments[j].name
    \/ \E i \in DOMAIN arguments : arguments[i].name = HELP

\* gen_parser(model): [ok |-> TRUE, parser_map |-> dict] or [ok |-> FALSE] when it raises
gen_parser(model) ==
    IF \E op_name \in DOMAIN model : arguments_conflict(op_arguments(model[op_name]))
    THEN [ok |-> FALSE]
    ELSE [ok |-> TRUE,
          parser_map |-> [op_name \in DOMAIN model |-> op_arguments(model[op_name])]]

VERSION == <<"v","e","r","s","i","o","n">>

SSH == <<"s","s","h">>

STATUS == <<"s","t","a","t","u","s">>

EXPECTS_EXTRA_ARGS ==
    <<"e","x","p","e","c","t","s","_","e","x","t","r","a","_","a","r","g","s">>

\* add_cluster_commands' api_implemented
API_IMPLEMENTED ==
    {STATUS, <<"c","r","e","a","t","e">>, <<"d","e","l","e","t","e">>,
     <<"i","n","s","t","a","n","c","e","s">>, <<"l","i","s","t">>, <<"s","t","a","r","t">>,
     <<"s","t","o","p">>, <<"u","p","d","a","t","e">>}

\* pcluster.cli.entrypoint.VersionCommand: a command that takes no extra arguments
VersionCommand == [name |-> VERSION, expects_extra_args |-> FALSE]

\* the CliCommand classes of pcluster.cli.commands.cluster: one that opts in to
\* extra arguments, and one whose name is among the API-implemented ones
ClusterCommandClasses ==
    {[name |-> SSH, expects_extra_args |-> TRUE],
     [name |-> STATUS, expects_extra_args |-> FALSE]}

\* add_cluster_commands(model, subparsers): the classes it instantiates
add_cluster_commands(model) ==
    {obj \in ClusterCommandClasses :
        obj.name \notin DOMAIN model /\ obj.name \notin API_IMPLEMENTED}

\* the commands add_cli_commands adds to the subparsers
cli_commands(model) == {VersionCommand} \cup add_cluster_commands(model)

\* the grammar with the subparser of each command in cmds added: a command's
\* subparser has the --debug flag
RECURSIVE add_command_parsers(_, _)
add_command_parsers(parser_map, cmds) ==
    IF cmds = {} THEN parser_map
    ELSE LET obj == CHOOSE c \in cmds : TRUE
         IN  add_command_parsers(
                 dict_set(parser_map, obj.name, <<store_true_argument(DEBUG)>>),
                 cmds \ {obj})

\* what a command's subparser sets in the namespace beside its flags:
\* set_defaults(func=self.execute, expects_extra_args=...); nothing for a
\* subcommand that is an operation of the model
cli_defaults(model, command) ==
    IF command \in DOMAIN model \/ \A obj \in cli_commands(model) : obj.name # command
    THEN EmptyDict
    ELSE LET obj == CHOOSE c \in cli_commands(model) : c.name = command
         IN  (FUNC :> [t |-> "method", v |-> "execute"])
                 @@ (EXPECTS_EXTRA_ARGS :> Bool(obj.expects_extra_args))

\* add_cli_commands(model, parser_map): the commands' subparsers are added
\* and parser_map['list-clusters'] gets --time
add_cli_commands(model, parser_map) ==
    IF LIST_CLUSTERS \notin DOMAIN parser_map
    THEN [ok |-> FALSE]
    ELSE LET arguments == parser_map[LIST_CLUSTERS] \o <<store_true_argument(TIME)>>
         IN  IF arguments_conflict(arguments)
             THEN [ok |-> FALSE]
             ELSE [ok |-> TRUE,
                   parser_map |-> add_command_parsers(
                       dict_set(parser_map, LIST_CLUSTERS, arguments), cli_commands(model))]

(***************************************************************************)
(* argparse's parse_known_args, for the grammar gen_parser builds.  The    *)
(* command line is [command, items]: the subcommand (<<>> when none is     *)
(* given) and, in order, the flags that follow it, each with the value     *)
(* strings up to the next flag.  Flags are consumed left to right and the  *)
(* first failure ends the parse; required flags are checked at the end.    *)
(* The result is [result |-> "ok", args, extra_args], [result |-> "error"] *)
(* (parser.error: usage on stderr, exit status 2),                         *)
(* [result |-> "sys.exit(1)"] (re_validator) or [result |-> "raise"].      *)
(***************************************************************************)
\* the namespace before any flag is consumed: every dest at its default,
\* dest='operation' and set_defaults(func=partial(dispatch, model))
default_namespace(command, arguments) ==
    LET dests == {dest_of(arguments[i].name) : i \in DOMAIN arguments}
        default(d) ==
            LET i == CHOOSE i \in DOMAIN arguments : dest_of(arguments[i].name) = d
            IN  IF arguments[i].action = "store_true" THEN Bool(FALSE) ELSE None
    IN  [d \in dests \cup {OPERATION, FUNC} |->
            IF d = OPERATION THEN Str(command)
            ELSE IF d = FUNC THEN [t |-> "partial", v |-> "dispatch"]
            ELSE default(d)]

\* the command-line tokens of an item the grammar does not take
flag_token(item) == Str(<<"-", "-">> \o item.flag)

value_tokens(vals) == [i \in DOMAIN vals |-> Str(vals[i])]

\* a store flag's values: every value converted (in order), then every
\* converted value checked against choices
get_values(files, argument, vals) ==
    LET got == [i \in DOMAIN vals |-> get_value(files, argument.type, vals[i])]
        bad == {i \in DOMAIN vals : ~got[i].ok}
        values == [i \in DOMAIN vals |-> got[i].value]
        in_choices(v) == \E c \in argument.choices : v = Str(c)
    IN  IF bad # {}
        THEN [ok |-> FALSE, how |-> got[CHOOSE i \in bad : \A j \in bad : i <= j].how]
        ELSE IF "choices" \in DOMAIN argument /\ \E i \in DOMAIN vals : ~in_choices(values[i])
             THEN [ok |-> FALSE, how |-> "error"]
             ELSE [ok |-> TRUE, values |-> values]

\* consume items[i..]: acc is [args, extra_args, seen]
RECURSIVE consume_optionals(_, _, _, _, _)
consume_optionals(files, arguments, items, i, acc) ==
    IF i > Len(items) THEN [result |-> "ok", acc |-> acc]
    ELSE
    LET item == items[i]
        known == {k \in DOMAIN arguments : arguments[k].name = item.flag}
    IN  IF known = {}
        THEN consume_optionals(files, arguments, items, i + 1,
                 [acc EXCEPT !.extra_args = @ \o <<flag_token(item)>> \o value_tokens(item.vals)])
        ELSE
        LET argument == arguments[CHOOSE k \in known : TRUE]
            dest == dest_of(argument.name)
            seen == acc.seen \cup {argument.name}
        IN  IF argument.action = "store_true"
            THEN consume_optionals(files, arguments, items, i + 1,
                     [args |-> dict_set(acc.args, dest, Bool(TRUE)),
                      extra_args |-> acc.extra_args \o value_tokens(item.vals),
                      seen |-> seen])
            ELSE IF item.vals = <<>>
            THEN [result |-> "error"]
            ELSE IF argument.nargs = "+"
            THEN LET got == get_values(files, argument, item.vals)
                 IN  IF ~got.ok
                     THEN [result |-> got.how]
                     ELSE consume_optionals(files, arguments, items, i + 1,
                              [args |-> dict_set(acc.args, dest, List(got.values)),
                               extra_args |-> acc.extra_args,
                               seen |-> seen])
            ELSE LET got == get_values(files, argument, <<item.vals[1]>>)
                 IN  IF ~got.ok
                     THEN [result |-> got.how]
                     ELSE consume_optionals(files, arguments, items, i + 1,
                              [args |-> dict_set(acc.args, dest, got.values[1]),
                               extra_args |-> acc.extra_args \o value_tokens(Tail(item.vals)),
                               seen |-> seen])

parse_known_args(files, parser_map, argv) ==
    IF argv.command \notin DOMAIN parser_map
    THEN [result |-> "error"]
    ELSE
    LET arguments == parser_map[argv.command]
        parsed == consume_optionals(files, arguments, argv.items, 1,
                      [args |-> default_namespace(argv.command, arguments),
                       extra_args |-> <<>>,
                       seen |-> {}])
    IN  IF parsed.result # "ok"
        THEN parsed
        ELSE IF \E k \in DOMAIN arguments :
                    arguments[k].required /\ arguments[k].name \notin parsed.acc.seen
             THEN [result |-> "error"]
             ELSE [result |-> "ok", args |-> parsed.acc.args,
                   extra_args |-> parsed.acc.extra_args]

(***************************************************************************)
(* Argument router: convert_args.                                          *)
(***************************************************************************)
\* param_name[0].lower() + param_name[1:]
lower_first(param_name) == <<lower(param_name[1])>> \o Tail(param_name)

\* the payload field name of a Body parameter
body_field(param) == lower_first(camelcase(to_snake_case(param.name)))

\* a variant of the loop's pass that tells required from optional the other
\* way round (used to try the placement property)
convert_param_inverted(param, acc) ==
    LET param_name == to_snake_case(param.name)
    IN  IF param_name \notin DOMAIN acc.args_in
        THEN [acc EXCEPT !.ok = FALSE]
        ELSE
        LET value == acc.args_in[param_name]
            popped == [acc EXCEPT !.args_in = dict_del(@, param_name)]
        IN  IF param.body
            THEN [popped EXCEPT !.body = dict_set(@, body_field(param), value)]
            ELSE IF dict_get(param, "required", FALSE)
                 THEN [popped EXCEPT !.kwargs = dict_set(@, param_name, value)]
                 ELSE [popped EXCEPT !.pos_args = Append(@, value)]

\* a variant of the loop's pass that reads args_in[param_name] and leaves it
\* there (used to try the consumption property)
convert_param_unpopped(param, acc) ==
    LET param_name == to_snake_case(param.name)
    IN  IF param_name \notin DOMAIN acc.args_in
        THEN [acc EXCEPT !.ok = FALSE]
        ELSE
        LET value == acc.args_in[param_name]
        IN  IF param.body
            THEN [acc EXCEPT !.body = dict_set(@, body_field(param), value)]
            ELSE IF dict_get(param, "required", FALSE)
                 THEN [acc EXCEPT !.pos_args = Append(@, value)]
                 ELSE [acc EXCEPT !.kwargs = dict_set(@, param_name, value)]

\* one pass of convert_args' loop: acc is [ok, body, pos_args, kwargs, args_in]
convert_param(param, acc) ==
    LET param_name == to_snake_case(param.name)
    IN  IF param_name \notin DOMAIN acc.args_in
        THEN [acc EXCEPT !.ok = FALSE]
        ELSE
        LET value == acc.args_in[param_name]
            popped == [acc EXCEPT !.args_in = dict_del(@, param_name)]
        IN  IF param.body
            THEN IF camelcase(param_name) = <<>>
                 THEN [acc EXCEPT !.ok = FALSE]
                 ELSE [popped EXCEPT !.body = dict_set(@, body_field(param), value)]
            ELSE IF dict_get(param, "required", FALSE)
                 THEN [popped EXCEPT !.pos_args = Append(@, value)]
                 ELSE [popped EXCEPT !.kwargs = dict_set(@, param_name, value)]

\* the loop over model[op_name]['params'], from parameter i on
RECURSIVE convert_params(_, _, _)
convert_params(params, i, acc) ==
    IF i > Len(params) \/ ~acc.ok THEN acc
    ELSE convert_params(params, i + 1, convert_param(params[i], acc))

\* a variant of convert_args that returns kwargs without the update by what
\* is left of args_in (used to try the pass-through property)
convert_args_declared_only(model, op_name, args_in) ==
    LET done == convert_params(model[op_name].params, 1,
                    [ok |-> TRUE, body |-> EmptyDict, pos_args |-> <<>>,
                     kwargs |-> EmptyDict, args_in |-> args_in])
    IN  [ok |-> done.ok, body |-> done.body, pos_args |-> done.pos_args,
         kwargs |-> done.kwargs, args_in |-> done.args_in]

\* convert_args(model, op_name, args_in): [ok |-> TRUE, body, pos_args, kwargs],
\* or ok |-> FALSE when it raises (KeyError of pop, IndexError of param_name[0]);
\* args_in is the caller's dict as the pops leave it
convert_args(model, op_name, args_in) ==
    LET done == convert_params(model[op_name].params, 1,
                    [ok |-> TRUE, body |-> EmptyDict, pos_args |-> <<>>,
                     kwargs |-> EmptyDict, args_in |-> args_in])
    IN  [ok |-> done.ok, body |-> done.body, pos_args |-> done.pos_args,
         kwargs |-> dict_update(done.kwargs, done.args_in), args_in |-> done.args_in]

(***************************************************************************)
(* Inputs of one run: the schema document (openapi.yaml), the functions    *)
(* the controller modules define, the files on disk and the command line.  *)
(***************************************************************************)
\* bounds of the inputs
MaxParams == 2

MaxItems == 2

MaxValues == 3

\* operationIds
ID_listClusters == <<"l","i","s","t","C","l","u","s","t","e","r","s">>

ID_ListClusters == <<"L","i","s","t","C","l","u","s","t","e","r","s">>

ID_describeCluster == <<"d","e","s","c","r","i","b","e","C","l","u","s","t","e","r">>

ID_deleteCluster == <<"d","e","l","e","t","e","C","l","u","s","t","e","r">>

\* parameter and property names
N_clusterName == <<"c","l","u","s","t","e","r","N","a","m","e">>

N_cluster_name == <<"c","l","u","s","t","e","r","_","n","a","m","e">>

N_region == <<"r","e","g","i","o","n">>

N_status == <<"s","t","a","t","u","s">>

N_nodeTypes == <<"n","o","d","e","T","y","p","e","s">>

N_verbose == <<"v","e","r","b","o","s","e">>

N_count == <<"c","o","u","n","t">>

N_name == <<"n","a","m","e">>

N_configFile == <<"c","o","n","f","i","g","F","i","l","e">>

N_tags == <<"t","a","g","s">>

\* command-line value strings
V_c1 == <<"c","1">>

\* decimal text, which does not match the name pattern
V_bad == <<"5">>

V_UP == <<"U","P">>

V_DOWN == <<"D","O","W","N">>

\* ^[a-zA-Z][a-zA-Z0-9-]+$
NAME_PATTERN == [first |-> {"a-z", "A-Z"}, rest |-> {"a-z", "A-Z", "0-9", "-"}]

\* spec['components']['schemas']
Components ==
    [ClusterName   |-> [type |-> "string", pattern |-> NAME_PATTERN],
     ClusterStatus |-> [type |-> "string", enum |-> {V_UP, V_DOWN}]]

\* query parameter declarations: a required one with a pattern (by reference),
\* an optional string, an optional enum array (items by reference), a
\* required string array, an optional boolean and an optional integer
QueryDecls ==
    {[name |-> N_clusterName, required |-> TRUE, schema |-> [ref |-> "ClusterName"]],
     [name |-> N_region, schema |-> [type |-> "string"]],
     [name |-> N_status,
      schema |-> [type |-> "array", items |-> [ref |-> "ClusterStatus"]]],
     [name |-> N_nodeTypes, required |-> TRUE,
      schema |-> [type |-> "array", items |-> [type |-> "string"]]],
     [name |-> N_verbose, required |-> FALSE, schema |-> [type |-> "boolean"]],
     [name |-> N_count, schema |-> [type |-> "integer"]]}

\* request-body properties (listed tells whether the body schema's required
\* list names the property): a required one with a pattern, a required
\* byte-format string and an optional string array
BodyDecls ==
    {[name |-> N_name, listed |-> TRUE, data |-> [ref |-> "ClusterName"]],
     [name |-> N_configFile, listed |-> TRUE,
      data |-> [type |-> "string", format |-> "byte"]],
     [name |-> N_tags, listed |-> FALSE,
      data |-> [type |-> "array", items |-> [type |-> "string"]]]}

\* the sequences without repetition of at most n elements of S
SeqsOf(S, n) ==
    UNION {{q \in [1..k -> S] : \A i, j \in 1..k : i # j => q[i] # q[j]} : k \in 0..n}

CONTROLLER == "pcluster.api.controllers.cluster_operations_controller"

\* an operation object of the document
Operation(id, queries, props) ==
    LET operation == [operationId |-> id, parameters |-> queries, controller |-> CONTROLLER]
        described == IF id = ID_listClusters
                     THEN dict_set(operation, "description", "Retrieve the list of clusters")
                     ELSE operation
    IN  IF props = <<>> THEN described
        ELSE dict_set(described, "requestBody",
                 [properties |-> [i \in DOMAIN props |->
                                     [name |-> props[i].name, data |-> props[i].data]],
                  required   |-> {props[i].name : i \in {j \in DOMAIN props : props[j].listed}}])

\* the parameter lists of an operation: query parameters, then body properties
ParamLists ==
    {pl \in SeqsOf(QueryDecls, MaxParams) \X SeqsOf(BodyDecls, MaxParams) :
        Len(pl[1]) + Len(pl[2]) <= MaxParams}

Document(ops) == [paths |-> ops, components |-> Components]

\* the functions of the controller module
Functions ==
    {[module |-> CONTROLLER, name |-> to_snake_case(id)] :
        id \in {ID_listClusters, ID_describeCluster}}

\* the files on disk: path -> contents
Files == (V_c1 :> "Region: us-east-1")

\* the value strings that may follow one flag
MULTI_WORD == <<V_DOWN, V_UP, V_UP, V_DOWN, V_UP, V_UP>>

ValSeqs ==
    {SubSeq(MULTI_WORD, 1, n) : n \in 0..MaxValues} \cup {<<V_c1>>, <<V_bad>>}

\* the flags a command line for this operation may give: one per declared
\* parameter, --debug and --time
FlagsOf(pl) ==
    {to_kebab_case(pl[1][i].name) : i \in DOMAIN pl[1]}
        \cup {to_kebab_case(pl[2][i].name) : i \in DOMAIN pl[2]}

ItemsOf(pl) ==
    {[flag |-> f, vals |-> vs] : f \in FlagsOf(pl), vs \in ValSeqs}
        \cup {[flag |-> f, vals |-> <<>>] : f \in {DEBUG, TIME}}

CommandLines(command, pl) ==
    {[command |-> command, items |-> items] :
        items \in UNION {[1..k -> ItemsOf(pl)] : k \in 0..MaxItems}}

L0 == Operation(ID_listClusters, <<>>, <<>>)

\* the document of a run of list-clusters: it declares that operation alone
ListDocument(pl) == Document(<<Operation(ID_listClusters, pl[1], pl[2])>>)

\* the document of a run of describe-cluster: list-clusters, then that operation
DescribeDocument(pl) == Document(<<L0, Operation(ID_describeCluster, pl[1], pl[2])>>)

\* documents with a defect, each run with a bare subcommand
DefectDocuments ==
    {\* no listClusters operation
     Document(<<Operation(ID_describeCluster, <<>>, <<>>)>>),
     \* two operationIds with one kebab-case name
     Document(<<L0, Operation(ID_ListClusters,
                 <<[name |-> N_region, schema |-> [type |-> "string"]]>>, <<>>)>>),
     Document(<<Operation(ID_ListClusters, <<>>, <<>>), Operation(ID_describeCluster, <<>>, <<>>),
                L0>>),
     \* two parameter names with one kebab-case name
     Document(<<Operation(ID_listClusters,
                 <<[name |-> N_clusterName, schema |-> [type |-> "string"]],
                   [name |-> N_cluster_name, schema |-> [type |-> "string"]]>>, <<>>)>>),
     \* a $ref to a schema the components do not hold
     Document(<<Operation(ID_listClusters,
                 <<[name |-> N_region, schema |-> [ref |-> "Region"]]>>, <<>>)>>),
     \* a $ref to a schema the components do not hold, in the items of an
     \* array-typed request-body property
     Document(<<Operation(ID_listClusters, <<>>,
                 <<[name |-> N_tags, listed |-> FALSE,
                    data |-> [type |-> "array", items |-> [ref |-> "Tag"]]]>>)>>),
     \* an operation whose controller module has no such function
     Document(<<L0, Operation(ID_deleteCluster, <<>>, <<>>)>>)}

\* command lines naming no subcommand, or one the grammar does not have
NoCommands == {<<>>, to_kebab_case(ID_describeCluster)}

BareCommand(command) == [command |-> command, items |-> <<>>]

\* command lines of the commands add_cli_commands adds (and of one it leaves
\* out): --debug, a flag they do not declare, values after --debug
CliCommandLines ==
    {[command |-> command, items |-> items] :
        command \in {VERSION, SSH, STATUS},
        items \in UNION {[1..k -> {[flag |-> DEBUG, vals |-> <<>>],
                                   [flag |-> TIME, vals |-> <<>>],
                                   [flag |-> DEBUG, vals |-> <<V_c1>>]}] : k \in 0..MaxItems}}

(***************************************************************************)
(* The run of main().                                                      *)
(***************************************************************************)
VARIABLES
    spec,        \* the schema document load_model reads
    argv,        \* the command line
    pc,          \* where main() is
    model,       \* load_model's result
    parser_map,  \* the grammar
    args,        \* args.__dict__
    extra_args,  \* the tokens parse_known_args did not recognise
    body,        \* convert_args' payload mapping
    pos_args,    \* convert_args' positional sequence
    kwargs,      \* convert_args' keyword mapping
    time_func,   \* list_clusters_middleware's time_func
    calls,       \* the calls of bound handlers made so far
    outcome,     \* how the handler's call ended
    ret,         \* dispatch's ret
    stages,      \* the stages of the invocation reached so far, in order
    log_level,   \* the level of the "pcluster" logger
    stdout,      \* what was written on standard output
    stderr,      \* what was written on standard error
    exit_status  \* the process exit status (-1 while running)

vars == <<spec, argv, pc, model, parser_map, args, extra_args, body, pos_args, kwargs,
          time_func, calls, outcome, ret, stages, log_level, stdout, stderr, exit_status>>

\* what a bound handler may return: nothing, an empty result, a response object
EMPTY_RESULT == [t |-> "dict", v |-> "{}"]

RESPONSE == [t |-> "model", v |-> "response"]

\* how a call of a bound handler may end
HandlerOutcomes ==
    {[how |-> "return", value |-> r] : r \in {None, EMPTY_RESULT, RESPONSE}}
        \cup {[how |-> "raise", value |-> [t |-> "exception", v |-> e]] :
                e \in {"Exception", "NoCredentialsError", "KeyboardInterrupt"}}

\* isinstance(e, Exception)
IsException(e) == e.v \in {"Exception", "NoCredentialsError"}

\* Python truth of a handler's result
truthy(value) == value \notin {None, EMPTY_RESULT, Bool(FALSE)}

\* dispatch's middleware dict: the operations with a middleware
middleware == {LIST_CLUSTERS}

\* what is written
Json(what) == [kind |-> "json", what |-> what]

Pprint(what) == [kind |-> "pprint", what |-> what]

Text(what) == [kind |-> "text", what |-> what]

\* a record of LOGGER (pcluster.cli), as the console handler of the
\* "pcluster" logger writes it on standard output; none below the level
log_record(level, levelname, what) ==
    IF levelname = "DEBUG" /\ level # "DEBUG" THEN <<>> ELSE <<Text(what)>>

Init ==
    /\ \/ \E pl \in ParamLists :
              /\ spec = ListDocument(pl)
              /\ argv \in CommandLines(LIST_CLUSTERS, pl)
       \/ \E pl \in ParamLists :
              /\ spec = DescribeDocument(pl)
              /\ argv \in CommandLines(to_kebab_case(ID_describeCluster), pl)
       \/ /\ spec \in DefectDocuments
          /\ argv = BareCommand(LIST_CLUSTERS)
       \/ /\ spec = Document(<<L0>>)
          /\ argv \in {BareCommand(c) : c \in NoCommands}
       \/ /\ spec = Document(<<L0>>)
          /\ argv \in CliCommandLines
    /\ pc = "start"
    /\ model = EmptyDict
    /\ parser_map = EmptyDict
    /\ args = EmptyDict
    /\ extra_args = <<>>
    /\ body = EmptyDict
    /\ pos_args = <<>>
    /\ kwargs = EmptyDict
    /\ time_func = Bool(FALSE)
    /\ calls = <<>>
    /\ outcome = [how |-> "none", value |-> None]
    /\ ret = None
    /\ stages = <<>>
    /\ log_level = "INFO"
    /\ stdout = <<>>
    /\ stderr = <<>>
    /\ exit_status = -1

\* sys.exit(status), after writing out and err
exit(status, out, err) ==
    /\ pc' = "exited"
    /\ exit_status' = status
    /\ stdout' = stdout \o out
    /\ stderr' = stderr \o err

\* an exception nothing catches: the traceback on standard error, exit status 1
crash == exit(1, <<>>, <<Text("Traceback")>>)

\* main: model = load_model()
LoadModel ==
    /\ pc = "start"
    /\ LET loaded == load_model(spec, Functions)
       IN  IF loaded.ok
           THEN /\ model' = loaded.model
                /\ pc' = "loaded"
                /\ UNCHANGED <<stdout, stderr, exit_status>>
           ELSE /\ crash
                /\ UNCHANGED model
    /\ UNCHANGED <<spec, argv, parser_map, args, extra_args, body, pos_args, kwargs,
                   time_func, calls, outcome, ret, stages, log_level>>

\* main: parser, parser_map = gen_parser(model)
GenParser ==
    /\ pc = "loaded"
    /\ LET built == gen_parser(model)
       IN  IF built.ok
           THEN /\ parser_map' = built.parser_map
                /\ pc' = "grammar"
                /\ UNCHANGED <<stdout, stderr, exit_status>>
           ELSE /\ crash
                /\ UNCHANGED parser_map
    /\ UNCHANGED <<spec, argv, model, args, extra_args, body, pos_args, kwargs,
                   time_func, calls, outcome, ret, stages, log_level>>

\* main: add_cli_commands(model, parser_map)
AddCliCommands ==
    /\ pc = "grammar"
    /\ LET added == add_cli_commands(model, parser_map)
       IN  IF added.ok
           THEN /\ parser_map' = added.parser_map
                /\ pc' = "ready"
                /\ UNCHANGED <<stdout, stderr, exit_status>>
           ELSE /\ crash
                /\ UNCHANGED parser_map
    /\ UNCHANGED <<spec, argv, model, args, extra_args, body, pos_args, kwargs,
                   time_func, calls, outcome, ret, stages, log_level>>

\* main: args, extra_args = parser.parse_known_args()
ParseKnownArgs ==
    /\ pc = "ready"
    /\ LET parsed == parse_known_args(Files, parser_map, argv)
       IN  CASE parsed.result = "ok" ->
                    /\ args' = dict_update(parsed.args, cli_defaults(model, argv.command))
                    /\ extra_args' = parsed.extra_args
                    /\ pc' = "parsed"
                    /\ stages' = Append(stages, "Parsed")
                    /\ UNCHANGED <<stdout, stderr, exit_status>>
             [] parsed.result = "error" ->
                    /\ exit(2, <<>>, <<Text("usage"), Text("error")>>)
                    /\ UNCHANGED <<args, extra_args, stages>>
             [] parsed.result = "sys.exit(1)" ->
                    /\ exit(1, <<Pprint("Bad Request")>>, <<>>)
                    /\ UNCHANGED <<args, extra_args, stages>>
             [] OTHER ->
                    /\ crash
                    /\ UNCHANGED <<args, extra_args, stages>>
    /\ UNCHANGED <<spec, argv, model, parser_map, body, pos_args, kwargs,
                   time_func, calls, outcome, ret, log_level>>

\* main: the check of extra_args
CheckExtraArgs ==
    /\ pc = "parsed"
    /\ IF extra_args # <<>>
            /\ (EXPECTS_EXTRA_ARGS \notin DOMAIN args \/ ~args[EXPECTS_EXTRA_ARGS].v)
       THEN exit(1, <<Text("usage"), Text("Invalid arguments")>>, <<>>)
       ELSE /\ pc' = "checked"
            /\ UNCHANGED <<stdout, stderr, exit_status>>
    /\ UNCHANGED <<spec, argv, model, parser_map, args, extra_args, body, pos_args, kwargs,
                   time_func, calls, outcome, ret, stages, log_level>>

\* main: if args.debug: setLevel(DEBUG); del args.__dict__['debug']
SetDebug ==
    /\ pc = "checked"
    /\ IF args[DEBUG].v
       THEN /\ log_level' = "DEBUG"
            /\ args' = dict_del(args, DEBUG)
       ELSE UNCHANGED <<log_level, args>>
    /\ pc' = "try"
    /\ UNCHANGED <<spec, argv, model, parser_map, extra_args, body, pos_args, kwargs,
                   time_func, calls, outcome, ret, stages, stdout, stderr, exit_status>>

\* main: args.func(args) for an operation of the model; dispatch up to
\* convert_args and the binding of the payload.  An exception of
\* convert_args reaches main's except Exception
Route ==
    /\ pc = "try"
    /\ args[OPERATION].v \in DOMAIN model
    /\ LET operation == args[OPERATION].v
           args_dict == dict_del(dict_del(args, FUNC), OPERATION)
           routed == convert_args(model, operation, args_dict)
           logged == log_record(log_level, "DEBUG", "Handling CLI operation")
       IN  IF routed.ok
           THEN /\ body' = routed.body
                /\ pos_args' = routed.pos_args
                /\ kwargs' = routed.kwargs
                /\ args' = routed.args_in
                /\ pc' = "routed"
                /\ stages' = Append(stages, "Routed")
                /\ stdout' = stdout \o logged
                /\ UNCHANGED <<stderr, exit_status>>
           ELSE /\ exit(1, logged \o log_record(log_level, "ERROR", "Unexpected error"), <<>>)
                /\ stages' = Append(stages, "Failed")
                /\ UNCHANGED <<body, pos_args, kwargs, args>>
    /\ UNCHANGED <<spec, argv, model, parser_map, extra_args, time_func, calls, outcome,
                   ret, log_level>>

\* the call func(*pos_args, **kwargs) of the bound handler; dispatch binds
\* the payload as first argument when len(body)
handler_call(func, payload, positional, keywords) ==
    [func     |-> func,
     body     |-> payload,
     bound    |-> payload # EmptyDict,
     pos_args |-> positional,
     kwargs   |-> keywords]

\* a variant in which the middleware calls func a second time (used to try
\* the at-most-once property)
handler_calls_twice(operation, call) ==
    IF operation = LIST_CLUSTERS THEN <<call, call>> ELSE <<call>>

\* the calls of the bound handler one dispatch makes: ret = func(*pos_args,
\* **kwargs), once, in list_clusters_middleware as in dispatch itself
handler_calls(operation, call) == <<call>>

\* list_clusters_middleware: time_func = kwargs.pop('time', False)
middleware_time_func(keywords) == dict_get(keywords, TIME, Bool(FALSE))

\* a variant in which the middleware reads kwargs['time'] and leaves it there
\* (used to try the timing-flag property)
middleware_kwargs_kept(keywords) == keywords

\* list_clusters_middleware: kwargs after the pop
middleware_kwargs(keywords) == dict_del(keywords, TIME)

\* list_clusters_middleware: what it prints once func has returned value
middleware_prints(timed, value) ==
    IF truthy(timed) THEN <<Pprint("ret"), Text("Took")>> ELSE <<>>

\* list_clusters_middleware: what it returns once func has returned value
middleware_returns(timed, value) ==
    IF truthy(timed) THEN None ELSE value

\* dispatch: the handler is called, by list_clusters_middleware or directly
InvokeHandler ==
    /\ pc = "routed"
    /\ LET operation == argv.command
           passed == IF operation \in middleware THEN middleware_kwargs(kwargs) ELSE kwargs
       IN  /\ time_func' = IF operation \in middleware
                           THEN middleware_time_func(kwargs)
                           ELSE time_func
           /\ kwargs' = passed
           /\ calls' = calls \o handler_calls(operation,
                                 handler_call(model[operation].func, body, pos_args, passed))
    /\ \E o \in HandlerOutcomes : outcome' = o
    /\ pc' = "invoked"
    /\ stages' = Append(stages, "Invoked")
    /\ UNCHANGED <<spec, argv, model, parser_map, args, extra_args, body, pos_args,
                   ret, log_level, stdout, stderr, exit_status>>

\* list_clusters_middleware after func returned
MiddlewareReturn ==
    /\ pc = "invoked"
    /\ argv.command \in middleware
    /\ outcome.how = "return"
    /\ stdout' = stdout \o middleware_prints(time_func, outcome.value)
    /\ ret' = middleware_returns(time_func, outcome.value)
    /\ pc' = "returned"
    /\ UNCHANGED <<spec, argv, model, parser_map, args, extra_args, body, pos_args, kwargs,
                   time_func, calls, outcome, stages, log_level, stderr, exit_status>>

\* dispatch: ret = dispatch_func(*pos_args, **kwargs) returned
DirectReturn ==
    /\ pc = "invoked"
    /\ argv.command \notin middleware
    /\ outcome.how = "return"
    /\ ret' = outcome.value
    /\ pc' = "returned"
    /\ UNCHANGED <<spec, argv, model, parser_map, args, extra_args, body, pos_args, kwargs,
                   time_func, calls, outcome, stages, log_level, stdout, stderr, exit_status>>

\* dispatch: except Exception as e: print the error as JSON; sys.exit(1)
DispatchExcept ==
    /\ pc = "invoked"
    /\ argv.command \notin middleware
    /\ outcome.how = "raise"
    /\ IsException(outcome.value)
    /\ exit(1, <<Json("error")>>, <<>>)
    /\ stages' = Append(stages, "Failed")
    /\ UNCHANGED <<spec, argv, model, parser_map, args, extra_args, body, pos_args, kwargs,
                   time_func, calls, outcome, ret, log_level>>

\* a variant in which dispatch prints ret whatever it is (used to try the
\* rendering property)
rendered_always(value) == <<Json("result")>>

\* what dispatch prints for ret: the result as JSON, if ret
rendered(value) == IF truthy(value) THEN <<Json("result")>> ELSE <<>>

\* dispatch: if ret: print the result as JSON; then main: sys.exit(0)
Render ==
    /\ pc = "returned"
    /\ exit(0, rendered(ret), <<>>)
    /\ stages' = Append(stages, "Succeeded")
    /\ UNCHANGED <<spec, argv, model, parser_map, args, extra_args, body, pos_args, kwargs,
                   time_func, calls, outcome, ret, log_level>>

\* what main's except clauses log for an exception dispatch lets through
main_except(level, e) ==
    CASE e.v = "NoCredentialsError" -> log_record(level, "ERROR", "AWS Credentials not found.")
      [] e.v = "KeyboardInterrupt" ->
             log_record(level, "DEBUG", "Received KeyboardInterrupt. Exiting.")
      [] OTHER -> log_record(level, "ERROR", "Unexpected error")

\* main: the except clauses, each ending in sys.exit(1)
MainExcept ==
    /\ pc = "invoked"
    /\ outcome.how = "raise"
    /\ argv.command \in middleware \/ ~IsException(outcome.value)
    /\ exit(1, main_except(log_level, outcome.value), <<>>)
    /\ stages' = Append(stages, "Failed")
    /\ UNCHANGED <<spec, argv, model, parser_map, args, extra_args, body, pos_args, kwargs,
                   time_func, calls, outcome, ret, log_level>>

COMMAND == <<"c","o","m","m","a","n","d">>

\* main: the else branch of the try, for a subcommand that is no operation of
\* the model: LOGGER.debug(..., args.command); args.func(args, extra_args);
\* sys.exit(0).  The namespace has the dests the grammar defines (the
\* subcommand is stored under 'operation'): reading args.command of a
\* namespace without it raises AttributeError, which main's except Exception
\* handles.  The stages are those of an operation's invocation and stay.
CliCommand ==
    /\ pc = "try"
    /\ args[OPERATION].v \notin DOMAIN model
    /\ IF COMMAND \notin DOMAIN args
       THEN /\ exit(1, log_record(log_level, "ERROR", "Unexpected error"), <<>>)
            /\ UNCHANGED <<calls, outcome>>
       ELSE \E o \in HandlerOutcomes :
              LET logged == log_record(log_level, "DEBUG", "Handling CLI command")
              IN  /\ calls' = Append(calls,
                                  handler_call(args[FUNC], EmptyDict,
                                      <<[t |-> "Namespace", v |-> args], List(extra_args)>>,
                                      EmptyDict))
                  /\ outcome' = o
                  /\ IF o.how = "return"
                     THEN exit(0, logged, <<>>)
                     ELSE exit(1, logged \o main_except(log_level, o.value), <<>>)
    /\ UNCHANGED <<spec, argv, model, parser_map, args, extra_args, body, pos_args, kwargs,
                   time_func, ret, stages, log_level>>

Next ==
    \/ LoadModel
    \/ GenParser
    \/ AddCliCommands
    \/ ParseKnownArgs
    \/ CheckExtraArgs
    \/ SetDebug
    \/ Route
    \/ CliCommand
    \/ InvokeHandler
    \/ MiddlewareReturn
    \/ DirectReturn
    \/ DispatchExcept
    \/ Render
    \/ MainExcept

Spec == Init /\ [][Next]_vars

(***************************************************************************)
(* Properties.                                                             *)
(***************************************************************************)
\* e was written on out
Printed(out, e) == \E i \in DOMAIN out : out[i] = e

\* the number of JSON documents on standard output
JsonCount == Cardinality({i \in DOMAIN stdout : stdout[i].kind = "json"})

\* the grammar is complete (gen_parser and add_cli_commands are done) and
\* parse_known_args has run on a command line that names a subcommand
SubcommandRan ==
    /\ pc \notin {"start", "loaded", "grammar", "ready"}
    /\ LIST_CLUSTERS \in DOMAIN parser_map
    /\ \E k \in DOMAIN parser_map[LIST_CLUSTERS] : parser_map[LIST_CLUSTERS][k].name = TIME
    /\ argv.command \in DOMAIN parser_map

\* ... and the subcommand is an operation of the model
ParseRan == SubcommandRan /\ argv.command \in DOMAIN model

\* the flags of the subcommand the command line names
Arguments == parser_map[argv.command]

\* the parameters of the operation the command line names
Params == model[argv.command].params

\* item i of the command line gives flag k of the subcommand
Gives(i, k) == argv.items[i].flag = Arguments[k].name

\* the value strings of item i that flag k consumes
Consumed(i, k) ==
    IF Arguments[k].action = "store_true" \/ argv.items[i].vals = <<>> THEN <<>>
    ELSE IF Arguments[k].nargs = "+" THEN argv.items[i].vals
    ELSE <<argv.items[i].vals[1]>>

\* a required flag is missing from the command line
MissingRequired ==
    \E k \in DOMAIN Arguments :
        Arguments[k].required /\ \A i \in DOMAIN argv.items : ~Gives(i, k)

\* a value outside the allowed choice set is given
OutOfChoice ==
    \E i \in DOMAIN argv.items, k \in DOMAIN Arguments :
        /\ Gives(i, k)
        /\ "choices" \in DOMAIN Arguments[k]
        /\ \E n \in DOMAIN Consumed(i, k) : Consumed(i, k)[n] \notin Arguments[k].choices

\* a multi-value flag is given with zero values
MultiWithoutValues ==
    \E i \in DOMAIN argv.items, k \in DOMAIN Arguments :
        /\ Gives(i, k)
        /\ Arguments[k].action = "store"
        /\ Arguments[k].nargs = "+"
        /\ argv.items[i].vals = <<>>

\* the handler raised an exception (not an interrupt)
HandlerRaised == outcome.how = "raise" /\ IsException(outcome.value)

\* C1: whenever the bound handler of any operation raises an exception, the
\* run prints exactly one structured JSON error object on standard output
\* and ends with exit status 1.
C1_HandlerErrorIsOneJsonError ==
    (pc = "exited" /\ HandlerRaised)
        => (exit_status = 1 /\ JsonCount = 1 /\ Printed(stdout, Json("error")))

\* C2: for every grammar validation error at parse time (a required flag
\* missing, a value outside the choice set, a multi-value flag with zero
\* values) the process ends with exit status 1 and no handler is invoked.
C2_GrammarErrorExitsOne ==
    (pc = "exited" /\ ParseRan /\ Printed(stderr, Text("error"))
        /\ (MissingRequired \/ OutOfChoice \/ MultiWithoutValues))
        => (exit_status = 1 /\ calls = <<>>)

\* the step of main in which convert_args completes
RouteStep == pc = "try" /\ pc' = "routed"

\* the key of parsed arguments and of keywords of declared parameter i
KeyOf(i) == to_snake_case(Params[i].name)

IsBody(i) == Params[i].body

IsRequiredQuery(i) == ~Params[i].body /\ dict_get(Params[i], "required", FALSE)

IsOptionalQuery(i) == ~Params[i].body /\ ~dict_get(Params[i], "required", FALSE)

\* the indices of the required Query parameters, in declaration order
RequiredQueries == SelectSeq([i \in DOMAIN Params |-> i], IsRequiredQuery)

DeclaredKeys == {KeyOf(i) : i \in DOMAIN Params}

\* C3: convert_args places every declared parameter in the bucket its
\* descriptor gives: a Body parameter in the payload under its mixed-case
\* field name whatever its required flag, a required Query parameter in the
\* positional sequence (which lists the required Query parameters in
\* declaration order), an optional Query parameter in the keyword mapping
\* under its underscored name; and in no other bucket.
C3_BucketPlacement ==
    [][RouteStep =>
        /\ \A i \in DOMAIN Params :
              /\ IsBody(i) =>
                    /\ body_field(Params[i]) \in DOMAIN body'
                    /\ body'[body_field(Params[i])] = args[KeyOf(i)]
                    /\ KeyOf(i) \notin DOMAIN kwargs'
              /\ IsOptionalQuery(i) =>
                    /\ KeyOf(i) \in DOMAIN kwargs'
                    /\ kwargs'[KeyOf(i)] = args[KeyOf(i)]
              /\ IsRequiredQuery(i) => KeyOf(i) \notin DOMAIN kwargs'
        /\ DOMAIN body' = {body_field(Params[i]) : i \in {j \in DOMAIN Params : IsBody(j)}}
        /\ pos_args' = [n \in DOMAIN RequiredQueries |-> args[KeyOf(RequiredQueries[n])]]
    ]_vars

\* two required Query parameters were routed, with different values
C3_Witness ==
    /\ pc = "routed"
    /\ Len(pos_args) = 2
    /\ pos_args[1] # pos_args[2]

LastGiving(i) ==
    CHOOSE j \in DOMAIN argv.items :
        /\ Gives(j, i)
        /\ \A k \in DOMAIN argv.items : Gives(k, i) => k <= j

\* the value a call of the handler receives for declared parameter i
Received(call, i) ==
    IF IsBody(i) THEN dict_get(call.body, body_field(Params[i]), [t |-> "missing"])
    ELSE IF IsRequiredQuery(i)
         THEN call.pos_args[CHOOSE n \in DOMAIN RequiredQueries : RequiredQueries[n] = i]
         ELSE dict_get(call.kwargs, KeyOf(i), [t |-> "missing"])

HasPattern(i) == "pattern" \in DOMAIN Params[i]

\* a value given for parameter i does not match its pattern
Mismatch(i) ==
    \E j \in DOMAIN argv.items :
        /\ Gives(j, i)
        /\ \E n \in DOMAIN Consumed(j, i) : ~re_match(Params[i].pattern, Consumed(j, i)[n])

\* values are given for parameter i and all of them match its pattern
AllMatch(i) ==
    /\ \E j \in DOMAIN argv.items : Gives(j, i) /\ Consumed(j, i) # <<>>
    /\ ~Mismatch(i)

\* C5: for a parameter with a pattern, a supplied value that does not match
\* makes the run fail at parse time with exit status 1 and the handler is
\* never invoked; a supplied value that matches reaches the handler as the
\* very string given on the command line.
C5_PatternGate ==
    (pc = "exited" /\ ParseRan) =>
        \A i \in DOMAIN Params :
            HasPattern(i) =>
                /\ Mismatch(i) => (exit_status = 1 /\ calls = <<>>)
                /\ AllMatch(i) =>
                      \A n \in DOMAIN calls :
                          Received(calls[n], i) = Str(Consumed(LastGiving(i), i)[1])

\* list-clusters was run with its timing flag
TimeGiven == \E j \in DOMAIN argv.items : argv.items[j].flag = TIME

\* list_clusters_middleware returned None in place of the result
Suppressed == argv.command \in middleware /\ TimeGiven

\* C6 as stated: when the handler returns, an empty or absent result prints
\* no JSON and a non-empty result prints exactly one JSON document; exit
\* status 0 either way.
C6_ResultRenderedOnce ==
    (pc = "exited" /\ outcome.how = "return") =>
        /\ exit_status = 0
        /\ ~truthy(outcome.value) => JsonCount = 0
        /\ truthy(outcome.value) => (JsonCount = 1 /\ Printed(stdout, Json("result")))

\* C6, amended: when the handler returns the exit status is 0; exactly one
\* JSON document (the result) is printed when the result is non-empty and
\* the operation's middleware has not suppressed the default rendering
\* (list-clusters with its timing flag); otherwise no JSON is printed.
C6_ResultRenderedUnlessSuppressed ==
    (pc = "exited" /\ outcome.how = "return") =>
        /\ exit_status = 0
        /\ (~truthy(outcome.value) \/ Suppressed) => JsonCount = 0
        /\ (truthy(outcome.value) /\ ~Suppressed) =>
              (JsonCount = 1 /\ Printed(stdout, Json("result")))

\* a handler returned a response object, which was printed
C6_Witness ==
    /\ pc = "exited"
    /\ outcome = [how |-> "return", value |-> RESPONSE]
    /\ JsonCount = 1
    /\ exit_status = 0

\* C7: for list-clusters, the timing flag is never passed to the handler;
\* when it is set, the handler's result is not rendered as JSON and a
\* duration line is printed instead; when it is not set, the handler's
\* result goes to the default rendering unchanged and no duration line is
\* printed.
C7_TimingFlag ==
    argv.command \in middleware =>
        /\ \A n \in DOMAIN calls : TIME \notin DOMAIN calls[n].kwargs
        /\ (pc \in {"returned", "exited"} /\ outcome.how = "return") =>
              IF TimeGiven
              THEN /\ ret = None
                   /\ Printed(stdout, Text("Took"))
                   /\ JsonCount = 0
              ELSE /\ ret = outcome.value
                   /\ ~Printed(stdout, Text("Took"))

\* list-clusters ran with its timing flag and the handler returned a response
C7_Witness ==
    /\ pc = "exited"
    /\ argv.command \in middleware
    /\ TimeGiven
    /\ outcome = [how |-> "return", value |-> RESPONSE]
    /\ Len(calls) = 1

\* C8: a document that declares N operations loads as a model of exactly N
\* descriptors, no two operations under one kebab-case name.
C8_OneDescriptorPerOperation ==
    pc = "loaded" => Cardinality(DOMAIN model) = Len(spec.paths)

\* parameter i is declared with an array schema
ArrayTyped(i) ==
    "multi" \in DOMAIN Params[i] \/ dict_get(Params[i], "type", "") = "array"

\* the command line gives 3 values for parameter i, all allowed, and nothing
\* else, and no other parameter is required
ThreeValuesFor(i) ==
    /\ Len(argv.items) = 1
    /\ Gives(1, i)
    /\ Len(argv.items[1].vals) = 3
    /\ "enum" \in DOMAIN Params[i] =>
          \A n \in 1..3 : argv.items[1].vals[n] \in Params[i].enum
    /\ \A k \in DOMAIN Params : k # i => ~dict_get(Params[k], "required", FALSE)

\* C9: an array-typed parameter given 3 values reaches the handler as one
\* sequence of these 3 values, in input order, in its bucket: positional for
\* a required Query parameter, keyword for an optional one, payload field
\* for a Body parameter.
C9_MultiRoutedAsSequence ==
    (pc = "exited" /\ ParseRan) =>
        \A i \in DOMAIN Params :
            (ArrayTyped(i) /\ ThreeValuesFor(i)) =>
                /\ Len(calls) = 1
                /\ Received(calls[1], i) = List(value_tokens(argv.items[1].vals))

\* the stage sequences of a run
StagePaths ==
    {SubSeq(<<"Parsed", "Routed", "Invoked", last>>, 1, n) :
        last \in {"Succeeded", "Failed"}, n \in 0..4}

\* C10: the stages of a run occur in the order Parsed, Routed, Invoked, then
\* Succeeded or Failed; the handler is invoked at most once, never before
\* convert_args has completed, and exactly once when parsing and routing
\* succeed.
C10_StageOrder ==
    /\ stages \in StagePaths
    /\ Len(calls) <= 1
    /\ Len(calls) = 1 <=> (Len(stages) >= 3 /\ stages[2] = "Routed" /\ stages[3] = "Invoked")
    /\ pc = "exited" =>
          /\ (Len(stages) >= 2 /\ stages[2] = "Routed") =>
                (Len(calls) = 1 /\ Len(stages) = 4)
          /\ (stages = <<"Parsed">> /\ argv.command \in DOMAIN model) => extra_args # <<>>

\* a run went through all four stages, the handler called once
C10_Witness ==
    /\ pc = "exited"
    /\ stages = <<"Parsed", "Routed", "Invoked", "Succeeded">>
    /\ Len(calls) = 1

\* the parsed argument set dispatch hands to convert_args
ArgsIn == dict_del(dict_del(args, FUNC), OPERATION)

\* C11: after convert_args every entry of the parsed argument set that is not
\* keyed by a declared parameter is in the keyword mapping under the same key
\* with the same value, and the keyword entry of every declared (optional
\* Query) parameter is still there with the parsed value.
C11_PassThroughUnchanged ==
    [][RouteStep =>
        /\ \A k \in DOMAIN ArgsIn \ DeclaredKeys :
              k \in DOMAIN kwargs' /\ kwargs'[k] = ArgsIn[k]
        /\ \A i \in DOMAIN Params :
              IsOptionalQuery(i) =>
                  KeyOf(i) \in DOMAIN kwargs' /\ kwargs'[KeyOf(i)] = ArgsIn[KeyOf(i)]
    ]_vars

\* list-clusters was routed with its timing flag set and a value for a
\* declared optional Query parameter
C11_Witness ==
    /\ pc = "routed"
    /\ TIME \in DOMAIN kwargs
    /\ kwargs[TIME] = Bool(TRUE)
    /\ \E i \in DOMAIN Params : IsOptionalQuery(i) /\ kwargs[KeyOf(i)] # None

\* the command line gives a flag the subcommand's grammar does not declare
UndeclaredGiven ==
    \E j \in DOMAIN argv.items : \A k \in DOMAIN Arguments : ~Gives(j, k)

\* the subcommand is a command that opted in to extra arguments
OptedIn ==
    \E obj \in cli_commands(model) :
        obj.name = argv.command /\ argv.command \notin DOMAIN model /\ obj.expects_extra_args

\* C12: when the command line has trailing arguments the subcommand's grammar
\* does not declare and the target has not opted in to extra arguments, the
\* run prints a usage message, ends with exit status 1 and invokes no
\* handler; when the target has opted in, the run proceeds to invocation.
C12_ExtraArgsGate ==
    (pc = "exited" /\ SubcommandRan /\ (UndeclaredGiven \/ extra_args # <<>>)) =>
        IF OptedIn
        THEN calls # <<>>
        ELSE /\ exit_status = 1
             /\ Printed(stdout, Text("usage")) \/ Printed(stderr, Text("usage"))
             /\ calls = <<>>

\* a value is given for parameter i
Given(i) == \E j \in DOMAIN argv.items : Gives(j, i) /\ Consumed(j, i) # <<>>

\* the valueType of parameter i as the schema writes it
ValueType(i) == dict_get(Params[i], "type", "string")

\* parameter i takes one value of a scalar valueType
Scalar(i) ==
    /\ ~ArrayTyped(i)
    /\ "enum" \notin DOMAIN Params[i]
    /\ ValueType(i) \in {"string", "integer", "boolean", "byte"}

\* the value of valueType type the string in_str stands for
Coerced(type, in_str) ==
    CASE type = "integer" ->
             IF \A n \in DOMAIN in_str : IsDigit(in_str[n])
             THEN PyInt(DecimalValue(in_str))
             ELSE [t |-> "invalid"]
      [] type = "boolean" -> Bool(in_str \notin FALSE_WORDS)
      [] type = "byte" ->
             IF in_str \in DOMAIN Files THEN B64(Files[in_str]) ELSE [t |-> "invalid"]
      [] OTHER -> Str(in_str)

\* C13: the value the handler receives for a parameter without a pattern is
\* the supplied string coerced by the parameter's valueType: an integer for
\* integer, a boolean for boolean, the base64 encoding of the named file's
\* contents for byte, the string itself for string; for a parameter with a
\* pattern it is the string itself.
C13_CoercedByValueType ==
    (ParseRan /\ calls # <<>>) =>
        \A i \in DOMAIN Params :
            (Given(i) /\ Scalar(i)) =>
                Received(calls[1], i) =
                    IF HasPattern(i)
                    THEN Str(Consumed(LastGiving(i), i)[1])
                    ELSE Coerced(ValueType(i), Consumed(LastGiving(i), i)[1])

\* C14: in every operation descriptor load_model produces the names of the
\* parameters (query parameters and body properties together) are pairwise
\* distinct, and so are their underscored forms, the routing keys.
C14_ParameterNamesDistinct ==
    pc = "loaded" =>
        \A op_name \in DOMAIN model :
            \A i, j \in DOMAIN model[op_name].params :
                i # j =>
                    /\ model[op_name].params[i].name # model[op_name].params[j].name
                    /\ to_snake_case(model[op_name].params[i].name)
                          # to_snake_case(model[op_name].params[j].name)

\* the $ref of a schema object, if it has one
RefsOf(subspec) == IF "ref" \in DOMAIN subspec THEN {subspec.ref} ELSE {}

\* the $ref-s of a schema object and of its items
SchemaRefs(schema) ==
    RefsOf(schema) \cup (IF "items" \in DOMAIN schema THEN RefsOf(schema.items) ELSE {})

\* the schema references of an operation: those of its parameters' schemas
\* and of its request-body properties
OperationRefs(operation) ==
    UNION {SchemaRefs(operation.parameters[i].schema) : i \in DOMAIN operation.parameters}
        \cup (IF "requestBody" \in DOMAIN operation
              THEN UNION {SchemaRefs(operation.requestBody.properties[i].data) :
                              i \in DOMAIN operation.requestBody.properties}
              ELSE {})

\* a schema reference of the document has no target
DanglingRef ==
    \E n \in DOMAIN spec.paths :
        \E r \in OperationRefs(spec.paths[n]) : r \notin DOMAIN spec.components

\* an operation's controller module has no function of the operation's name
MissingBinding ==
    \E n \in DOMAIN spec.paths :
        [module |-> spec.paths[n].controller,
         name   |-> to_snake_case(to_kebab_case(spec.paths[n].operationId))] \notin Functions

\* C15: if a schema reference cannot be resolved or an operation's controller
\* binding cannot be found, load_model fails before it returns a model: no
\* grammar is built, no command line is parsed, no handler is invoked.
C15_LoadFailureIsFatal ==
    (DanglingRef \/ MissingBinding) =>
        /\ pc \in {"start", "exited"}
        /\ model = EmptyDict
        /\ parser_map = EmptyDict
        /\ stages = <<>>
        /\ calls = <<>>

\* --debug is given on the command line
DebugGiven == \E j \in DOMAIN argv.items : argv.items[j].flag = DEBUG

NotDebug(item) == item.flag # DEBUG

\* the call of the handler that the run of the same command line without
\* --debug makes
CallWithoutDebug ==
    LET parsed == parse_known_args(Files, parser_map,
                      [argv EXCEPT !.items = SelectSeq(argv.items, NotDebug)])
        routed == convert_args(model, argv.command,
                      dict_del(dict_del(parsed.args, FUNC), OPERATION))
        passed == IF argv.command \in middleware
                  THEN middleware_kwargs(routed.kwargs)
                  ELSE routed.kwargs
    IN  handler_call(model[argv.command].func, routed.body, routed.pos_args, passed)

\* C16: the debug toggle affects log verbosity only: the payload, positional
\* and keyword arguments of the handler's call are those of the run with the
\* same other flags and no --debug, and with or without --debug the handler
\* receives no 'debug' keyword argument.
C16_DebugOnlyVerbosity ==
    (ParseRan /\ calls # <<>>) =>
        /\ DEBUG \notin DOMAIN calls[1].kwargs
        /\ DebugGiven => calls[1] = CallWithoutDebug

====
